---- MODULE Spec2Model ----
(***************************************************************************)
(* x3f_extract: the command line driver of the X3F tools.                  *)
(*                                                                         *)
(* The module models src/x3f_extract.cpp: the bounded path construction    *)
(* (safecpy, safecat, make_paths), the resolution of the format and color  *)
(* options into an extraction plan, and main's per-file pipeline           *)
(* open -> read -> loads -> make_paths -> unlink -> encoder -> rename ->   *)
(* clean_up -> report.                                                     *)
(*                                                                         *)
(* C strings are sequences of one-character strings.  The container        *)
(* parser, the encoders and the file system are external: every call to    *)
(* them is an action whose outcome is chosen nondeterministically.         *)
(***************************************************************************)
EXTENDS Integers, Sequences, FiniteSets, TLC

VARIABLES
  argv,                    \* the command line, as boost::program_options sees it
  pc,                      \* main's position
  extract_jpg, extract_meta, extract_raw, extract_unconverted_raw,
  crop, fix_bad, denoise, apply_sgain, file_type, color_encoding,
  files, errors, log_hist, wb, compress, outdir,
  infile, f_in, x3f, tmpfile, outfile, ret_dump, sgain,
  mp,                      \* what the last make_paths call did (return value, writes)
  fs,                      \* the files at tmpfile's and outfile's paths
  trace,                   \* the external calls made so far, in order
  status                   \* how the process ended

opts == <<extract_jpg, extract_raw, extract_unconverted_raw,
          crop, fix_bad, denoise, apply_sgain, file_type, color_encoding,
          log_hist, wb, compress, outdir>>

locals == <<infile, f_in, x3f, tmpfile, outfile, ret_dump, sgain, mp>>

vars == <<argv, pc, opts, extract_meta, files, errors, locals, fs, trace, status>>

----------------------------------------------------------------------------
(* Bounds of the model *)

\* how many positional input files a command line carries at most
MaxInputs == 2

\* how far below MAXOUTPATH the long input paths start
MaxSlack == 5

----------------------------------------------------------------------------
(* output_file_type_t and the extension table *)

META == 0
JPEG == 1
RAW == 2
TIFF == 3
DNG == 4
PPMP3 == 5
PPMP6 == 6
HISTOGRAM == 7

FileTypes == {META, JPEG, RAW, TIFF, DNG, PPMP3, PPMP6, HISTOGRAM}

\* an extension table of empty strings
extension_none(t) == <<>>

\* extension[file_type], a C array indexed from 0
extension(t) ==
  << <<".", "m", "e", "t", "a">>,
     <<".", "j", "p", "g">>,
     <<".", "r", "a", "w">>,
     <<".", "t", "i", "f">>,
     <<".", "d", "n", "g">>,
     <<".", "p", "p", "m">>,
     <<".", "p", "p", "m">>,
     <<".", "c", "s", "v">> >>[t + 1]

----------------------------------------------------------------------------
(* Bounded string building *)

MAXPATH == 1000
EXTMAX == 10
MAXOUTPATH == MAXPATH + EXTMAX
MAXTMPPATH == MAXOUTPATH + EXTMAX

\* The build for POSIX systems: one separator.
PATHSEP == "/"
pathseps == <<PATHSEP>>

\* strnlen(s, n): the length of s, looking at no more than n bytes
strnlen(s, n) == IF Len(s) < n THEN Len(s) ELSE n

\* A char buffer is modelled by the C string that starts at its address
\* (str) and the highest byte offset written through it so far (wrote).

safecpy(dst, src, dst_size) ==
  IF strnlen(src, dst_size + 1) > dst_size
    THEN [ret |-> 1, str |-> dst.str, wrote |-> dst.wrote]
    ELSE \* strcpy(dst, src) writes src and its terminating NUL
         [ret |-> 0, str |-> src,
          wrote |-> IF Len(src) + 1 > dst.wrote THEN Len(src) + 1 ELSE dst.wrote]

safecat_srconly(dst, src, dst_size) ==
  IF strnlen(src, dst_size + 1) > dst_size
    THEN [ret |-> 1, str |-> dst.str, wrote |-> dst.wrote]
    ELSE [ret |-> 0, str |-> dst.str \o src,
          wrote |-> IF Len(dst.str) + Len(src) + 1 > dst.wrote
                      THEN Len(dst.str) + Len(src) + 1 ELSE dst.wrote]

safecat(dst, src, dst_size) ==
  IF strnlen(dst.str, dst_size + 1) + strnlen(src, dst_size + 1) > dst_size
    THEN [ret |-> 1, str |-> dst.str, wrote |-> dst.wrote]
    ELSE \* strcat(dst, src) writes src and its NUL after dst's string
         [ret |-> 0, str |-> dst.str \o src,
          wrote |-> IF Len(dst.str) + Len(src) + 1 > dst.wrote
                      THEN Len(dst.str) + Len(src) + 1 ELSE dst.wrote]

\* strchr(pathseps, c) != NULL
IsSep_never(c) == FALSE

IsSep(c) == \E k \in 1..Len(pathseps) : pathseps[k] = c

\* strrchr(s, c): the index of the last c in s, 0 for NULL
strrchr(s, c) ==
  LET at == {k \in 1..Len(s) : s[k] = c}
  IN  IF at = {} THEN 0 ELSE CHOOSE k \in at : \A j \in at : j <= k

\* The loop of make_paths over pathseps: ptr, as the index in inpath where
\* the base name starts (1 is inpath itself).
RECURSIVE BaseStart(_, _, _)
BaseStart(inpath, k, ptr) ==
  IF k > Len(pathseps) THEN ptr
  ELSE LET p == strrchr(inpath, pathseps[k])
       IN  BaseStart(inpath, k + 1, IF p # 0 /\ p + 1 > ptr THEN p + 1 ELSE ptr)

\* A fresh automatic buffer: garbage is the C string its indeterminate bytes hold.
Buffer(garbage) == [ret |-> 0, str |-> garbage, wrote |-> 0]

\* outdir is <<>> for NULL and <<dir>> for a pointer to dir.
make_paths(inpath, outdir_, ext, tmpgarbage, outgarbage) ==
  LET o0 == Buffer(outgarbage)
      t0 == Buffer(tmpgarbage)
      withdir == outdir_ # <<>> /\ outdir_[1] # <<>>
      dir == IF withdir THEN outdir_[1] ELSE <<>>
      ptr == BaseStart(inpath, 1, 1)
      o1 == IF withdir THEN safecpy(o0, dir, MAXOUTPATH)
                       ELSE safecpy(o0, inpath, MAXOUTPATH)
      o2 == IF withdir /\ ~IsSep(dir[Len(dir)])
              THEN safecat(o1, <<PATHSEP>>, MAXOUTPATH)
              ELSE [o1 EXCEPT !.ret = 0]
      o3 == IF withdir
              THEN safecat(o2, SubSeq(inpath, ptr, Len(inpath)), MAXOUTPATH)
              ELSE [o2 EXCEPT !.ret = 0]
      o4 == safecat(o3, ext, MAXOUTPATH)
      t1 == safecpy(t0, o4.str, MAXTMPPATH)
      t2 == safecat(t1, <<".", "t", "m", "p">>, MAXTMPPATH)
  IN  [err |-> o1.ret + o2.ret + o3.ret + o4.ret + t1.ret + t2.ret,
       outpath |-> o4.str, tmppath |-> t2.str,
       outwrote |-> o4.wrote, tmpwrote |-> t2.wrote]

----------------------------------------------------------------------------
(* The command line *)

\* An option is <<>> when it is not given (vm.count(name) = 0) and <<value>>
\* when it is given once.  input holds the positional arguments, in order.

FormatTokens ==
  {"jpg", "meta", "raw", "tiff", "dng", "ppm-ascii", "ppm", "histogram", "loghist"}

ColorTokens == {"none", "sRGB", "AdobeRGB", "ProPhotoRGB", "unprocessed", "qtop"}

\* tokens the program does not know
UnknownFormats == {"bmp", "DNG"}
UnknownColors == {"srgb"}

FormatArgs == {<<>>} \cup {<<f>> : f \in FormatTokens \cup UnknownFormats}
ColorArgs == {<<>>} \cup {<<c>> : c \in ColorTokens \cup UnknownColors}

\* n times the character c
Rep(c, n) == SubSeq([i \in 1..n |-> c], 1, n)

\* a path of n characters whose components are short enough to be opened
Long(n) == SubSeq([i \in 1..n |-> IF i % 100 = 1 THEN "/" ELSE "a"], 1, n)

photo == <<"p", "h", "o", "t", "o", ".", "x", "3", "f">>
in_photo == <<"/", "i", "n", "/">> \o photo
out_dir == <<"/", "o", "u", "t">>
out_dir_sep == <<"/", "o", "u", "t", "/">>

\* input paths around the capacity of outfile
LongPaths == {Long(MAXOUTPATH - k) : k \in 0..MaxSlack} \cup {Long(MAXOUTPATH + 1)}

\* the i-th positional argument of a command line with several inputs
InputList(n) == [i \in 1..n |-> IF i = 1 THEN photo ELSE <<"/", "i", "n", "/", "b">>]

DefaultArgs ==
  [format |-> <<>>, color |-> <<>>, noCrop |-> FALSE, noFixBad |-> FALSE,
   noDenoise |-> FALSE, noSGain |-> FALSE, sgain |-> FALSE,
   whiteBalance |-> <<>>, compress |-> FALSE, output |-> <<>>,
   input |-> <<photo>>]

\* every format with every color encoding, cropped or not
PlanArgs ==
  {[DefaultArgs EXCEPT !.format = f, !.color = c, !.noCrop = r] :
     f \in FormatArgs, c \in ColorArgs, r \in BOOLEAN}

\* zero, one or several input files, with known and unknown tokens
InputArgs ==
  {[DefaultArgs EXCEPT !.format = f, !.color = c, !.input = InputList(n)] :
     f \in {<<>>, <<"jpg">>, <<"bmp">>}, c \in {<<>>, <<"srgb">>}, n \in 0..MaxInputs}

\* the output directories of a command line: none, the empty string, and a
\* directory without and with a trailing separator
OutputArgs == {<<>>, << <<>> >>, <<out_dir>>, <<out_dir_sep>>}

\* an input path, with and without an output directory
ShortPathArgs ==
  {[DefaultArgs EXCEPT !.format = f, !.output = o, !.input = <<in_photo>>] :
     f \in {<<>>, <<"meta">>}, o \in OutputArgs}

\* input paths that do not fit outfile: with the extension, and on their own
LongPathArgs ==
  {[DefaultArgs EXCEPT !.output = o, !.input = <<i>>] :
     o \in OutputArgs, i \in {Long(MAXOUTPATH - 3), Long(MAXOUTPATH + 1)}}

PathArgs == ShortPathArgs \cup LongPathArgs

\* every output kind with every output directory
KindPathArgs ==
  {[DefaultArgs EXCEPT !.format = <<f>>, !.output = o, !.input = <<in_photo>>] :
     f \in FormatTokens, o \in OutputArgs}

\* the processing switches handed to the encoders: noFixBad, noDenoise,
\* compress and whiteBalance, any two of them differing in some choice
FlagChoices ==
  {<<FALSE, FALSE, FALSE, <<>> >>, <<TRUE, FALSE, TRUE, <<"Auto">> >>,
   <<FALSE, TRUE, TRUE, <<>> >>, <<TRUE, TRUE, FALSE, <<"Auto">> >>}

FlagArgs ==
  {[DefaultArgs EXCEPT !.format = f, !.color = c,
                       !.noSGain = g[1], !.sgain = g[2],
                       !.noFixBad = k[1], !.noDenoise = k[2], !.compress = k[3],
                       !.whiteBalance = k[4]] :
     f \in {<<"tiff">>, <<"dng">>, <<"ppm">>, <<"ppm-ascii">>, <<"loghist">>},
     c \in {<<>>, <<"AdobeRGB">>},
     g \in {<<FALSE, FALSE>>, <<TRUE, FALSE>>, <<FALSE, TRUE>>, <<TRUE, TRUE>>},
     k \in FlagChoices}

CommandLines == PlanArgs \cup InputArgs \cup PathArgs \cup KindPathArgs \cup FlagArgs

\* The files at the temporary and the final path before the run.  Left-overs
\* of an earlier run are looked at with the command lines of InputArgs and
\* ShortPathArgs and with every format.
CleanFiles == [tmp |-> "absent", final |-> "absent", final0 |-> "absent"]

FilesBefore(args) ==
  IF args \in InputArgs \cup ShortPathArgs
     \/ \E f \in FormatArgs : args = [DefaultArgs EXCEPT !.format = f]
    THEN {[tmp |-> t, final |-> f, final0 |-> f] :
            t \in {"absent", "stale"}, f \in {"absent", "old"}}
    ELSE {CleanFiles}

count(name) == Len(argv[name])

----------------------------------------------------------------------------
(* Option resolution *)

\* The Z macro, then the if/else chain on fmt.  cur holds the five variables
\* the chain may assign; known is FALSE in the final else (return 1).
format_switch_rawswap(fmt, cur) ==
  LET z == [cur EXCEPT !.extract_jpg = 0, !.extract_raw = 0,
                       !.extract_unconverted_raw = 0]
  IN  IF fmt = "jpg" THEN [z EXCEPT !.extract_jpg = 1, !.file_type = JPEG] @@ [known |-> TRUE]
      ELSE IF fmt = "meta" THEN [z EXCEPT !.file_type = META] @@ [known |-> TRUE]
      ELSE IF fmt = "raw" THEN [z EXCEPT !.extract_raw = 1, !.file_type = RAW] @@ [known |-> TRUE]
      ELSE IF fmt = "tiff" THEN [z EXCEPT !.extract_raw = 1, !.file_type = TIFF] @@ [known |-> TRUE]
      ELSE IF fmt = "dng" THEN [z EXCEPT !.extract_raw = 1, !.file_type = DNG] @@ [known |-> TRUE]
      ELSE IF fmt = "ppm-ascii" THEN [z EXCEPT !.extract_raw = 1, !.file_type = PPMP3] @@ [known |-> TRUE]
      ELSE IF fmt = "ppm" THEN [z EXCEPT !.extract_raw = 1, !.file_type = PPMP6] @@ [known |-> TRUE]
      ELSE IF fmt = "histogram" THEN [z EXCEPT !.extract_raw = 1, !.file_type = HISTOGRAM] @@ [known |-> TRUE]
      ELSE IF fmt = "loghist" THEN [z EXCEPT !.extract_raw = 1, !.file_type = HISTOGRAM, !.log_hist = 1] @@ [known |-> TRUE]
      ELSE z @@ [known |-> FALSE]

format_switch(fmt, cur) ==
  LET z == [cur EXCEPT !.extract_jpg = 0, !.extract_raw = 0,
                       !.extract_unconverted_raw = 0]
  IN  IF fmt = "jpg" THEN [z EXCEPT !.extract_jpg = 1, !.file_type = JPEG] @@ [known |-> TRUE]
      ELSE IF fmt = "meta" THEN [z EXCEPT !.file_type = META] @@ [known |-> TRUE]
      ELSE IF fmt = "raw" THEN [z EXCEPT !.extract_unconverted_raw = 1, !.file_type = RAW] @@ [known |-> TRUE]
      ELSE IF fmt = "tiff" THEN [z EXCEPT !.extract_raw = 1, !.file_type = TIFF] @@ [known |-> TRUE]
      ELSE IF fmt = "dng" THEN [z EXCEPT !.extract_raw = 1, !.file_type = DNG] @@ [known |-> TRUE]
      ELSE IF fmt = "ppm-ascii" THEN [z EXCEPT !.extract_raw = 1, !.file_type = PPMP3] @@ [known |-> TRUE]
      ELSE IF fmt = "ppm" THEN [z EXCEPT !.extract_raw = 1, !.file_type = PPMP6] @@ [known |-> TRUE]
      ELSE IF fmt = "histogram" THEN [z EXCEPT !.extract_raw = 1, !.file_type = HISTOGRAM] @@ [known |-> TRUE]
      ELSE IF fmt = "loghist" THEN [z EXCEPT !.extract_raw = 1, !.file_type = HISTOGRAM, !.log_hist = 1] @@ [known |-> TRUE]
      ELSE z @@ [known |-> FALSE]

\* The if/else chain on spc: the x3f_color_encoding_t chosen, "" in the final else.
color_switch(spc) ==
  IF spc = "none" THEN "NONE"
  ELSE IF spc = "sRGB" THEN "SRGB"
  ELSE IF spc = "AdobeRGB" THEN "ARGB"
  ELSE IF spc = "ProPhotoRGB" THEN "PPRGB"
  ELSE IF spc = "unprocessed" THEN "UNPROCESSED"
  ELSE IF spc = "qtop" THEN "QTOP"
  ELSE ""

\* extract_meta, as an int of C
need_meta_nocrop(ft, raw, crop_, enc) ==
  IF ft = META \/ ft = DNG
     \/ (raw # 0 /\ (enc # "UNPROCESSED" /\ enc # "QTOP"))
    THEN 1 ELSE 0

need_meta(ft, raw, crop_, enc) ==
  IF ft = META \/ ft = DNG
     \/ (raw # 0 /\ (crop_ # 0 \/ (enc # "UNPROCESSED" /\ enc # "QTOP")))
    THEN 1 ELSE 0

----------------------------------------------------------------------------
(* The external calls *)

\* One call, as it is logged: the function, the section or nothing, the path
\* argument or <<>>, whether it succeeded, and the parameters of an encoder.
Call(op, what, path, ok, par) ==
  [op |-> op, what |-> what, path |-> path, ok |-> ok, par |-> par]

Encoders ==
  {"x3f_dump_meta_data", "x3f_dump_jpeg", "x3f_dump_raw_data",
   "x3f_dump_raw_data_as_tiff", "x3f_dump_raw_data_as_dng",
   "x3f_dump_raw_data_as_ppm", "x3f_dump_raw_data_as_histogram"}

Loads == {"x3f_load_data", "x3f_load_image_block"}

\* the calls of trace whose function is in ops, as indices
CallsOf(ops) == {i \in 1..Len(trace) : trace[i].op \in ops}

\* x3f->header.version of the containers at hand; X3F_VERSION(MAJ,MIN) is
\* (MAJ << 16) + MIN
X3F_VERSION(maj, min) == maj * 65536 + min
X3F_VERSION_4_0 == X3F_VERSION(4, 0)
Versions == {X3F_VERSION(3, 0), X3F_VERSION(4, 0), X3F_VERSION(4, 1)}

\* what indeterminate bytes of a char buffer may hold, as a C string
Garbage ==
  {<<>>, Rep("?", MAXOUTPATH - 1), Rep("?", MAXOUTPATH + 1),
   Rep("?", MAXTMPPATH - 4), Rep("?", MAXTMPPATH + 1)}

----------------------------------------------------------------------------
(* main *)

Init ==
  /\ argv \in CommandLines
  /\ pc = "start"
  /\ extract_jpg = 0
  /\ extract_meta = 0      \* indeterminate, assigned before it is read
  /\ extract_raw = 1
  /\ extract_unconverted_raw = 0
  /\ crop = 1
  /\ fix_bad = 1
  /\ denoise = 1
  /\ apply_sgain = -1
  /\ file_type = DNG
  /\ color_encoding = "SRGB"
  /\ files = 0
  /\ errors = 0
  /\ log_hist = 0
  /\ wb = <<>>
  /\ compress = 0
  /\ outdir = <<>>
  /\ infile = <<>>
  /\ f_in = "NULL"
  /\ x3f = [ptr |-> "NULL", version |-> 0]
  /\ tmpfile = <<>>
  /\ outfile = <<>>
  /\ ret_dump = "unset"
  /\ sgain = 0
  /\ mp = [err |-> 0, outwrote |-> 0, tmpwrote |-> 0, called |-> FALSE]
  /\ fs \in FilesBefore(argv)
  /\ trace = <<>>
  /\ status = "running"


\* boost::program_options::store: a second value for "input", declared as
\* value<std::string>(), throws multiple_occurrences; main catches nothing, so
\* the process is terminated.
ParseCommandLine ==
  /\ pc = "start"
  /\ IF count("input") > 1
       THEN pc' = "aborted" /\ status' = "abort"
       ELSE pc' = "format" /\ status' = status
  /\ UNCHANGED <<argv, opts, extract_meta, files, errors, locals, fs, trace>>

ParseFormat ==
  /\ pc = "format"
  /\ IF count("format") > 0
       THEN LET r == format_switch(argv.format[1],
                       [extract_jpg |-> extract_jpg, extract_raw |-> extract_raw,
                        extract_unconverted_raw |-> extract_unconverted_raw,
                        file_type |-> file_type, log_hist |-> log_hist])
            IN  /\ extract_jpg' = r.extract_jpg
                /\ extract_raw' = r.extract_raw
                /\ extract_unconverted_raw' = r.extract_unconverted_raw
                /\ file_type' = r.file_type
                /\ log_hist' = r.log_hist
                /\ IF r.known
                     THEN pc' = "color" /\ status' = status
                     ELSE pc' = "done" /\ status' = "exit1"
       ELSE /\ pc' = "color"
            /\ UNCHANGED <<extract_jpg, extract_raw, extract_unconverted_raw,
                           file_type, log_hist, status>>
  /\ UNCHANGED <<argv, crop, fix_bad, denoise, apply_sgain, color_encoding, wb,
                 compress, outdir, extract_meta, files, errors, locals, fs, trace>>

ParseColor ==
  /\ pc = "color"
  /\ IF count("color") > 0
       THEN LET enc == color_switch(argv.color[1])
            IN  IF enc # ""
                  THEN color_encoding' = enc /\ pc' = "flags" /\ status' = status
                  ELSE /\ pc' = "done" /\ status' = "exit1"
                       /\ UNCHANGED color_encoding
       ELSE pc' = "flags" /\ UNCHANGED <<color_encoding, status>>
  /\ UNCHANGED <<argv, extract_jpg, extract_raw, extract_unconverted_raw, crop,
                 fix_bad, denoise, apply_sgain, file_type, log_hist, wb, compress,
                 outdir, extract_meta, files, errors, locals, fs, trace>>

\* the value of apply_sgain after the noSGain and sgain switches
sgain_switches(cur, noSGain, sgain_) ==
  LET a == IF noSGain THEN 0 ELSE cur
  IN  IF sgain_ THEN 1 ELSE a

SetFlags ==
  /\ pc = "flags"
  /\ crop' = IF argv.noCrop THEN 0 ELSE crop
  /\ fix_bad' = IF argv.noFixBad THEN 0 ELSE fix_bad
  /\ denoise' = IF argv.noDenoise THEN 0 ELSE denoise
  /\ apply_sgain' = sgain_switches(apply_sgain, argv.noSGain, argv.sgain)
  /\ wb' = IF count("whiteBalance") > 0 THEN argv.whiteBalance ELSE wb
  /\ compress' = IF argv.compress THEN 1 ELSE compress
  /\ pc' = "output"
  /\ UNCHANGED <<argv, extract_jpg, extract_raw, extract_unconverted_raw,
                 file_type, color_encoding, log_hist, outdir, extract_meta,
                 files, errors, locals, fs, trace, status>>

\* where main goes on a result r of check_dir, were a failure to end the run
after_check_dir_stops(r) == IF r # 0 THEN "done" ELSE "input"

\* where main goes on a result r of check_dir: it prints the usage text on a
\* failure, and goes on
after_check_dir(r) == "input"

\* check_dir's stat of the output directory: a result the program only reports
CheckOutput ==
  /\ pc = "output"
  /\ IF count("output") > 0
       THEN /\ outdir' = argv.output
            /\ \E isdir \in BOOLEAN :
                 /\ isdir => argv.output[1] # <<>>
                 /\ trace' = Append(trace, Call("check_dir", "", argv.output[1], isdir, <<>>))
                 /\ pc' = after_check_dir(IF isdir THEN 0 ELSE -1)
       ELSE pc' = "input" /\ UNCHANGED <<outdir, trace>>
  /\ UNCHANGED <<argv, extract_jpg, extract_raw, extract_unconverted_raw, crop,
                 fix_bad, denoise, apply_sgain, file_type, color_encoding, log_hist,
                 wb, compress, extract_meta, files, errors, locals, fs, status>>

\* the usage text on std::cerr is not logged; the x3f_printf(ERR, ...) is
CheckInput ==
  /\ pc = "input"
  /\ IF count("input") = 0
       THEN /\ trace' = Append(trace, Call("x3f_printf", "Could not find outdir %s",
                                                <<>>, TRUE, <<>>))
            /\ pc' = "done"
            /\ status' = "exit1"
       ELSE pc' = "meta" /\ UNCHANGED <<status, trace>>
  /\ UNCHANGED <<argv, opts, extract_meta, files, errors, locals, fs>>

ComputeMeta ==
  /\ pc = "meta"
  /\ extract_meta' = need_meta(file_type, extract_raw, crop, color_encoding)
  /\ pc' = "open"
  /\ UNCHANGED <<argv, opts, files, errors, locals, fs, trace, status>>


----------------------------------------------------------------------------
(* The processing of the input file *)

Log(c) == trace' = Append(trace, c)

\* a failure that is not acted on
GotoFoundError_fallthrough == pc' = "paths"

\* goto found_error
GotoFoundError == pc' = "found_error"

\* fopen(infile, "rb"), files++, and the test of f_in
OpenInput ==
  /\ pc = "open"
  /\ infile' = argv.input[1]
  /\ files' = files + 1
  /\ \E ok \in BOOLEAN :
       /\ f_in' = IF ok THEN "open" ELSE "NULL"
       /\ Log(Call("fopen", "rb", argv.input[1], ok, <<>>))
       /\ IF ok THEN pc' = "read" ELSE GotoFoundError
  /\ UNCHANGED <<argv, opts, extract_meta, errors, x3f, tmpfile, outfile,
                 ret_dump, sgain, mp, fs, status>>

\* x3f_new_from_file(f_in): NULL, or a container with its header read
ReadContainer ==
  /\ pc = "read"
  /\ \/ /\ x3f' = [ptr |-> "NULL", version |-> 0]
        /\ Log(Call("x3f_new_from_file", "", <<>>, FALSE, <<>>))
        /\ GotoFoundError
     \/ \E v \in Versions :
          /\ x3f' = [ptr |-> "valid", version |-> v]
          /\ Log(Call("x3f_new_from_file", "", <<>>, TRUE, <<>>))
          /\ pc' = "jpg"
  /\ UNCHANGED <<argv, opts, extract_meta, files, errors, infile, f_in, tmpfile,
                 outfile, ret_dump, sgain, mp, fs, status>>

LoadJpeg ==
  /\ pc = "jpg"
  /\ IF extract_jpg # 0
       THEN \E ok \in BOOLEAN :
              /\ Log(Call("x3f_load_data", "jpeg", <<>>, ok, <<>>))
              /\ IF ok THEN pc' = "meta_load" ELSE GotoFoundError
       ELSE pc' = "meta_load" /\ UNCHANGED trace
  /\ UNCHANGED <<argv, opts, extract_meta, files, errors, locals, fs, status>>

\* PROP loaded whatever x3f_get_prop returned
loads_prop_always(de) == TRUE

\* if (DE != NULL): whether main loads PROP; de is whether x3f_get_prop found it
loads_prop(de) == de

\* x3f_get_prop, the load of CAMF, and the load of PROP when there is one
LoadMeta ==
  /\ pc = "meta_load"
  /\ IF extract_meta # 0
       THEN \E de \in BOOLEAN :
              LET t1 == Append(trace, Call("x3f_get_prop", "prop", <<>>, de, <<>>))
                  t2 == Append(t1, Call("x3f_load_data", "camf", <<>>, TRUE, <<>>))
              IN  \/ /\ trace' = Append(t1, Call("x3f_load_data", "camf", <<>>, FALSE, <<>>))
                     /\ GotoFoundError
                  \/ /\ ~loads_prop(de)
                     /\ trace' = t2
                     /\ pc' = "raw"
                  \/ /\ loads_prop(de)
                     /\ \E ok \in BOOLEAN :
                          /\ trace' = Append(t2, Call("x3f_load_data", "prop", <<>>, ok, <<>>))
                          /\ IF ok THEN pc' = "raw" ELSE GotoFoundError
       ELSE pc' = "raw" /\ UNCHANGED trace
  /\ UNCHANGED <<argv, opts, extract_meta, files, errors, locals, fs, status>>

\* x3f_get_raw and the load of the section it found
LoadRaw ==
  /\ pc = "raw"
  /\ IF extract_raw # 0
       THEN \/ /\ Log(Call("x3f_get_raw", "raw", <<>>, FALSE, <<>>))
               /\ GotoFoundError
            \/ \E ok \in BOOLEAN :
                 /\ trace' = Append(Append(trace,
                                Call("x3f_get_raw", "raw", <<>>, TRUE, <<>>)),
                                Call("x3f_load_data", "raw", <<>>, ok, <<>>))
                 /\ IF ok THEN pc' = "unconverted" ELSE GotoFoundError
       ELSE pc' = "unconverted" /\ UNCHANGED trace
  /\ UNCHANGED <<argv, opts, extract_meta, files, errors, locals, fs, status>>

LoadUnconvertedRaw ==
  /\ pc = "unconverted"
  /\ IF extract_unconverted_raw # 0
       THEN \/ /\ Log(Call("x3f_get_raw", "raw", <<>>, FALSE, <<>>))
               /\ GotoFoundError
            \/ \E ok \in BOOLEAN :
                 /\ trace' = Append(Append(trace,
                                Call("x3f_get_raw", "raw", <<>>, TRUE, <<>>)),
                                Call("x3f_load_image_block", "raw", <<>>, ok, <<>>))
                 /\ IF ok THEN pc' = "paths" ELSE GotoFoundError
       ELSE pc' = "paths" /\ UNCHANGED trace
  /\ UNCHANGED <<argv, opts, extract_meta, files, errors, locals, fs, status>>

\* the result of make_paths not looked at
after_make_paths_ignored(r) == "unlink"

\* where main goes on a result r of make_paths
after_make_paths(r) == IF r # 0 THEN "found_error" ELSE "unlink"

\* tmpfile and outfile are automatic arrays: they hold garbage until written
MakePaths ==
  /\ pc = "paths"
  /\ \E tg \in Garbage, og \in Garbage :
       LET r == make_paths(infile, outdir, extension(file_type), tg, og)
       IN  /\ tmpfile' = r.tmppath
           /\ outfile' = r.outpath
           /\ mp' = [err |-> r.err, outwrote |-> r.outwrote,
                     tmpwrote |-> r.tmpwrote, called |-> TRUE]
           /\ pc' = after_make_paths(r.err)
  /\ UNCHANGED <<argv, opts, extract_meta, files, errors, infile, f_in, x3f,
                 ret_dump, sgain, fs, trace, status>>

\* the encoder reached without the unlink
Unlink_skipped ==
  /\ pc = "unlink"
  /\ pc' = "sgain"
  /\ UNCHANGED <<argv, opts, extract_meta, files, errors, locals, fs, trace, status>>

\* unlink(tmpfile); its result is not looked at
Unlink ==
  /\ pc = "unlink"
  /\ \E ok \in BOOLEAN :
       /\ ok => fs.tmp # "absent"
       /\ fs' = IF ok THEN [fs EXCEPT !.tmp = "absent"] ELSE fs
       /\ Log(Call("unlink", "", tmpfile, ok, <<>>))
  /\ pc' = "sgain"
  /\ UNCHANGED <<argv, opts, extract_meta, files, errors, locals, status>>

\* the default the other way round
sgain_default_inverted(apply, version) ==
  IF apply = -1 THEN (IF version < X3F_VERSION_4_0 THEN 0 ELSE 1) ELSE apply

\* sgain = apply_sgain == -1 ? x3f->header.version < X3F_VERSION_4_0 : apply_sgain
sgain_default(apply, version) ==
  IF apply = -1 THEN (IF version < X3F_VERSION_4_0 THEN 1 ELSE 0) ELSE apply

ResolveSGain ==
  /\ pc = "sgain"
  /\ sgain' = sgain_default(apply_sgain, x3f.version)
  /\ pc' = "dispatch"
  /\ UNCHANGED <<argv, opts, extract_meta, files, errors, infile, f_in, x3f,
                 tmpfile, outfile, ret_dump, mp, fs, trace, status>>


\* every kind handed to the TIFF encoder
dispatch_tiff(ft, enc, crop_, fix, den, sg, wb_, comp, lh) ==
  [op |-> "x3f_dump_raw_data_as_tiff",
   par |-> [color_encoding |-> enc, crop |-> crop_, fix_bad |-> fix,
            denoise |-> den, sgain |-> sg, wb |-> wb_, compress |-> comp]]

\* switch (file_type): the encoder called and the arguments it gets after
\* x3f and tmpfile
dispatch(ft, enc, crop_, fix, den, sg, wb_, comp, lh) ==
  IF ft = META THEN [op |-> "x3f_dump_meta_data", par |-> <<>>]
  ELSE IF ft = JPEG THEN [op |-> "x3f_dump_jpeg", par |-> <<>>]
  ELSE IF ft = RAW THEN [op |-> "x3f_dump_raw_data", par |-> <<>>]
  ELSE IF ft = TIFF THEN
    [op |-> "x3f_dump_raw_data_as_tiff",
     par |-> [color_encoding |-> enc, crop |-> crop_, fix_bad |-> fix,
              denoise |-> den, sgain |-> sg, wb |-> wb_, compress |-> comp]]
  ELSE IF ft = DNG THEN
    [op |-> "x3f_dump_raw_data_as_dng",
     par |-> [fix_bad |-> fix, denoise |-> den, sgain |-> sg, wb |-> wb_,
              compress |-> comp]]
  ELSE IF ft = PPMP3 \/ ft = PPMP6 THEN
    [op |-> "x3f_dump_raw_data_as_ppm",
     par |-> [color_encoding |-> enc, crop |-> crop_, fix_bad |-> fix,
              denoise |-> den, sgain |-> sg, wb |-> wb_,
              binary |-> IF ft = PPMP6 THEN 1 ELSE 0]]
  ELSE \* HISTOGRAM
    [op |-> "x3f_dump_raw_data_as_histogram",
     par |-> [color_encoding |-> enc, crop |-> crop_, fix_bad |-> fix,
              denoise |-> den, sgain |-> sg, wb |-> wb_, log_hist |-> lh]]

\* The encoder writes the artifact at tmpfile.  When it fails it may have
\* written a part of it, or nothing.
Dispatch ==
  /\ pc = "dispatch"
  /\ LET d == dispatch(file_type, color_encoding, crop, fix_bad, denoise, sgain,
                       wb, compress, log_hist)
     IN  \/ /\ ret_dump' = "X3F_OK"
            /\ fs' = [fs EXCEPT !.tmp = "complete"]
            /\ Log(Call(d.op, "", tmpfile, TRUE, d.par))
         \/ /\ ret_dump' = "X3F_OUTFILE_ERROR"
            /\ \E left \in {fs.tmp, "partial"} : fs' = [fs EXCEPT !.tmp = left]
            /\ Log(Call(d.op, "", tmpfile, FALSE, d.par))
  /\ pc' = "commit"
  /\ UNCHANGED <<argv, opts, extract_meta, files, errors, infile, f_in, x3f,
                 tmpfile, outfile, sgain, mp, status>>

\* whether main calls rename after the encoder returned ret
renames_always(ret) == TRUE

renames(ret) == ret = "X3F_OK"

\* where main goes after the test of ret_dump
after_commit_fallthrough == "found_error"

after_commit == "clean_up"

Commit ==
  /\ pc = "commit"
  /\ IF ~renames(ret_dump)
       THEN errors' = errors + 1 /\ UNCHANGED <<fs, trace>>
       ELSE \E ok \in BOOLEAN :
              /\ ok => fs.tmp # "absent"
              /\ fs' = IF ok THEN [fs EXCEPT !.tmp = "absent", !.final = fs.tmp] ELSE fs
              /\ errors' = IF ok THEN errors ELSE errors + 1
              /\ Log(Call("rename", "", tmpfile, ok, [to |-> outfile]))
  /\ pc' = after_commit
  /\ UNCHANGED <<argv, opts, extract_meta, files, locals, status>>

FoundError ==
  /\ pc = "found_error"
  /\ errors' = errors + 1
  /\ pc' = "clean_up"
  /\ UNCHANGED <<argv, opts, extract_meta, files, locals, fs, trace, status>>

\* whether clean_up closes f_in
closes_never(f) == FALSE

closes(f) == f # "NULL"

\* x3f_delete(x3f), and fclose(f_in) if f_in is not NULL
CleanUp ==
  /\ pc = "clean_up"
  /\ x3f' = [x3f EXCEPT !.ptr = IF x3f.ptr = "NULL" THEN "NULL" ELSE "freed"]
  /\ LET t1 == Append(trace, Call("x3f_delete", x3f.ptr, <<>>, TRUE, <<>>))
     IN  IF closes(f_in)
           THEN /\ trace' = Append(t1, Call("fclose", f_in, <<>>, TRUE, <<>>))
                /\ f_in' = "closed"
           ELSE trace' = t1 /\ UNCHANGED f_in
  /\ pc' = "report"
  /\ UNCHANGED <<argv, opts, extract_meta, files, errors, infile, tmpfile,
                 outfile, ret_dump, sgain, mp, fs, status>>

\* return errors > 0
exit_status_zero(e) == "exit0"

exit_status(e) == IF e > 0 THEN "exit1" ELSE "exit0"

Report ==
  /\ pc = "report"
  /\ LET t1 == IF files = 0
                 THEN Append(trace, Call("x3f_printf", "No files given", <<>>, TRUE, <<>>))
                 ELSE trace
     IN  trace' = Append(t1, Call("x3f_printf", "Files processed: %d\terrors: %d",
                                  <<>>, TRUE, [files |-> files, errors |-> errors]))
  /\ status' = exit_status(errors)
  /\ pc' = "done"
  /\ UNCHANGED <<argv, opts, extract_meta, files, errors, locals, fs>>

Next ==
  \/ ParseCommandLine \/ ParseFormat \/ ParseColor \/ SetFlags \/ CheckOutput
  \/ CheckInput \/ ComputeMeta \/ OpenInput \/ ReadContainer \/ LoadJpeg
  \/ LoadMeta \/ LoadRaw \/ LoadUnconvertedRaw \/ MakePaths \/ Unlink
  \/ ResolveSGain \/ Dispatch \/ Commit \/ FoundError \/ CleanUp \/ Report

Spec == Init /\ [][Next]_vars


----------------------------------------------------------------------------
(* make_paths on its own *)

\* The state in which main reaches the call of make_paths, for a container
\* whose loads all succeeded, with input paths and output directories around
\* the capacities of the buffers.  The log starts at the call.

in_dir == <<"/", "i", "n", "/">>

PathInputs == {photo, in_photo, in_dir} \cup LongPaths

PathOutputs == OutputArgs \cup {<<Long(MAXPATH - 4)>>, <<Long(MAXOUTPATH + 1)>>}

PathCommandLines ==
  {[DefaultArgs EXCEPT !.format = f, !.output = o, !.input = <<i>>] :
     f \in {<<>>} \cup {<<t>> : t \in FormatTokens},
     o \in PathOutputs, i \in PathInputs}

InitPaths ==
  /\ argv \in PathCommandLines
  /\ pc = "paths"
  /\ LET cur == [extract_jpg |-> 0, extract_raw |-> 1, extract_unconverted_raw |-> 0,
                 file_type |-> DNG, log_hist |-> 0]
         r == IF argv.format = <<>> THEN cur ELSE format_switch(argv.format[1], cur)
     IN  /\ extract_jpg = r.extract_jpg
         /\ extract_raw = r.extract_raw
         /\ extract_unconverted_raw = r.extract_unconverted_raw
         /\ file_type = r.file_type
         /\ log_hist = r.log_hist
         /\ extract_meta = need_meta(r.file_type, r.extract_raw, 1, "SRGB")
  /\ crop = 1
  /\ fix_bad = 1
  /\ denoise = 1
  /\ apply_sgain = -1
  /\ color_encoding = "SRGB"
  /\ files = 1
  /\ errors = 0
  /\ wb = <<>>
  /\ compress = 0
  /\ outdir = argv.output
  /\ infile = argv.input[1]
  /\ f_in = "open"
  /\ x3f = [ptr |-> "valid", version |-> X3F_VERSION(3, 0)]
  /\ tmpfile = <<>>
  /\ outfile = <<>>
  /\ ret_dump = "unset"
  /\ sgain = 0
  /\ mp = [err |-> 0, outwrote |-> 0, tmpwrote |-> 0, called |-> FALSE]
  /\ fs = CleanFiles
  /\ trace = <<>>
  /\ status = "running"

NextPaths ==
  \/ MakePaths \/ Unlink \/ ResolveSGain \/ Dispatch \/ Commit \/ FoundError
  \/ CleanUp \/ Report

SpecPaths == InitPaths /\ [][NextPaths]_vars


----------------------------------------------------------------------------
(* What the claims speak of *)

Terminated == pc \in {"done", "aborted"}

\* the calls of ops that succeeded, and those that failed
Succeeded(ops) == {i \in CallsOf(ops) : trace[i].ok}
FailedCalls(ops) == {i \in CallsOf(ops) : ~trace[i].ok}

\* the stages of a file's processing that can fail
StageOps ==
  {"fopen", "x3f_new_from_file", "x3f_get_raw", "rename"} \cup Loads \cup Encoders

StageFailed == FailedCalls(StageOps) # {} \/ mp.err # 0

EncodeOK == Succeeded(Encoders) # {}
RenameOK == Succeeded({"rename"}) # {}

\* the per-file scope has been entered
ScopeEntered == CallsOf({"fopen"}) # {}

\* the per-file scope has been left
ScopeLeft == ScopeEntered /\ pc \in {"report", "done"}

\* the format and color tokens in effect, with the documented defaults
FormatToken == IF argv.format = <<>> THEN "dng" ELSE argv.format[1]
ColorToken == IF argv.color = <<>> THEN "sRGB" ELSE argv.color[1]

UnknownToken == FormatToken \notin FormatTokens \/ ColorToken \notin ColorTokens

\* -------------------------------------------------------------------------
\* C1 (as stated): after the input file has been processed, a file is visible
\* at finalPath if and only if the encoder completed without error and the
\* rename succeeded, whatever was at finalPath before the run.
C1_Original ==
  pc = "done" /\ ScopeEntered =>
    (fs.final # "absent" <=> (EncodeOK /\ RenameOK))

\* C1 (amended): after the input file has been processed, the file at
\* finalPath is the artifact this run's encoder completed if and only if the
\* encoder returned without error and the rename succeeded; otherwise
\* finalPath is as it was before the run: absent if it was absent, and the
\* file of the earlier run if there was one.
C1_FinalIffCommitted ==
  pc = "done" /\ ScopeEntered =>
    /\ fs.final = "complete" <=> (EncodeOK /\ RenameOK)
    /\ ~(EncodeOK /\ RenameOK) => fs.final = fs.final0

\* C1, witness: the encoder failed with a file of an earlier run at finalPath
C1_Witness ==
  /\ pc = "done"
  /\ FailedCalls(Encoders) # {}
  /\ fs.final0 = "old"
  /\ fs.final = "old"

\* -------------------------------------------------------------------------
\* C2: the exit status is 0 exactly when at least one input file was supplied
\* and every supplied file was processed to its output with no stage failing,
\* and it is 1 when a stage failed for a file or when no input file was
\* supplied.
C2_ExitStatus ==
  Terminated =>
    /\ status = "exit0" <=>
         /\ Len(argv.input) >= 1
         /\ Cardinality(Succeeded({"rename"})) = Len(argv.input)
         /\ ~StageFailed
    /\ (StageFailed \/ Len(argv.input) = 0) => status = "exit1"

\* C2, witness: a run that ends with status 1 because the rename failed
C2_Witness ==
  /\ pc = "done"
  /\ status = "exit1"
  /\ EncodeOK
  /\ FailedCalls({"rename"}) # {}

\* -------------------------------------------------------------------------
\* C3: errors never exceeds files, and once the file's processing is over
\* errors is 1 if a stage failed (open, container read, a load, the raw
\* section lookup, path overflow, encode or rename) and 0 if none did.
C3_OneErrorPerFile ==
  /\ errors <= files
  /\ ScopeLeft => errors = (IF StageFailed THEN 1 ELSE 0)

\* C3, witness: the encoder succeeded, the rename failed, one error counted
C3_Witness ==
  /\ ScopeLeft
  /\ EncodeOK
  /\ FailedCalls({"rename"}) # {}
  /\ errors = 1

\* -------------------------------------------------------------------------
\* C4: x3f_delete and fclose are called at most once; once the per-file scope
\* is left x3f_delete has been called exactly once and fclose exactly once if
\* the open succeeded and never otherwise; and no lookup, load or encoder call
\* on the handle follows x3f_delete.
C4_ReleasedOnce ==
  LET deleted == CallsOf({"x3f_delete"})
      closed == CallsOf({"fclose"})
      uses == CallsOf(Loads \cup Encoders \cup {"x3f_get_raw", "x3f_get_prop"})
  IN  /\ Cardinality(deleted) <= 1
      /\ Cardinality(closed) <= 1
      /\ closed # {} => Succeeded({"fopen"}) # {}
      /\ ScopeLeft =>
           /\ Cardinality(deleted) = 1
           /\ Cardinality(closed) = Cardinality(Succeeded({"fopen"}))
      /\ \A d \in deleted, u \in uses : u < d

\* C4, witness: the encoder failed, and the container and the file were released
C4_Witness ==
  /\ ScopeLeft
  /\ FailedCalls(Encoders) # {}
  /\ CallsOf({"x3f_delete"}) # {}
  /\ CallsOf({"fclose"}) # {}
  /\ f_in = "closed"

\* -------------------------------------------------------------------------
\* C5 (the claim): when the run has ended, every supplied input file has been
\* opened exactly once and the count of files processed equals the number of
\* supplied inputs.
C5_Claim ==
  Terminated /\ ~UnknownToken =>
    /\ files = Len(argv.input)
    /\ \A k \in 1..Len(argv.input) :
         Cardinality({i \in CallsOf({"fopen"}) : trace[i].path = argv.input[k]}) = 1

\* -------------------------------------------------------------------------
\* C6: extract_meta is 1 for dng (also by default) and meta; for tiff,
\* ppm-ascii, ppm, histogram and loghist it is 1 exactly when crop is on or
\* the color encoding is neither unprocessed nor qtop; for jpg and raw it is 0.
C6_NeedMetadata ==
  (pc = "open" \/ ScopeEntered) =>
    extract_meta =
      (IF FormatToken \in {"dng", "meta"} THEN 1
       ELSE IF FormatToken \in {"tiff", "ppm-ascii", "ppm", "histogram", "loghist"}
         THEN (IF ~argv.noCrop \/ ColorToken \notin {"unprocessed", "qtop"}
                 THEN 1 ELSE 0)
       ELSE 0)

\* C6, witness: tiff of the Quattro top layer without crop needs no metadata
C6_Witness ==
  /\ pc = "open"
  /\ argv.format = <<"tiff">>
  /\ argv.color = <<"qtop">>
  /\ argv.noCrop
  /\ extract_meta = 0

\* -------------------------------------------------------------------------
\* C7: every supported format token, and no token (dng), resolves to one
\* output kind with its extension and to the section plan of the table; at
\* most one of extract_jpg, extract_raw, extract_unconverted_raw is set; and
\* the final path that is built ends in that extension.
PlanTable ==
  [t \in FormatTokens |->
     CASE t = "meta" -> [kind |-> META, ext |-> <<".", "m", "e", "t", "a">>, plan |-> <<0, 0, 0>>]
       [] t = "jpg" -> [kind |-> JPEG, ext |-> <<".", "j", "p", "g">>, plan |-> <<1, 0, 0>>]
       [] t = "raw" -> [kind |-> RAW, ext |-> <<".", "r", "a", "w">>, plan |-> <<0, 0, 1>>]
       [] t = "tiff" -> [kind |-> TIFF, ext |-> <<".", "t", "i", "f">>, plan |-> <<0, 1, 0>>]
       [] t = "dng" -> [kind |-> DNG, ext |-> <<".", "d", "n", "g">>, plan |-> <<0, 1, 0>>]
       [] t = "ppm-ascii" -> [kind |-> PPMP3, ext |-> <<".", "p", "p", "m">>, plan |-> <<0, 1, 0>>]
       [] t = "ppm" -> [kind |-> PPMP6, ext |-> <<".", "p", "p", "m">>, plan |-> <<0, 1, 0>>]
       [] t = "histogram" -> [kind |-> HISTOGRAM, ext |-> <<".", "c", "s", "v">>, plan |-> <<0, 1, 0>>]
       [] t = "loghist" -> [kind |-> HISTOGRAM, ext |-> <<".", "c", "s", "v">>, plan |-> <<0, 1, 0>>]]

EndsWith(s, e) == Len(s) >= Len(e) /\ SubSeq(s, Len(s) - Len(e) + 1, Len(s)) = e

C7_PlanOfFormat ==
  /\ extract_jpg + extract_raw + extract_unconverted_raw <= 1
  /\ (pc \notin {"start", "format", "aborted"} /\ FormatToken \in FormatTokens) =>
       LET row == PlanTable[FormatToken]
       IN  /\ file_type = row.kind
           /\ extension(file_type) = row.ext
           /\ <<extract_jpg, extract_raw, extract_unconverted_raw>> = row.plan
           /\ (mp.called /\ mp.err = 0) => EndsWith(outfile, row.ext)

\* C7, witness: loghist went through as a histogram, and the final path is a .csv
C7_Witness ==
  /\ argv.format = <<"loghist">>
  /\ file_type = HISTOGRAM
  /\ mp.called
  /\ mp.err = 0
  /\ EndsWith(outfile, <<".", "c", "s", "v">>)


\* -------------------------------------------------------------------------
\* The paths make_paths is meant to build.  An output directory is given when
\* the option is present and not the empty string.

DirGiven == outdir # <<>> /\ outdir[1] # <<>>

\* the substring after the last path separator
BaseName(p) ==
  LET seps == {k \in 1..Len(p) : p[k] = "/"}
  IN  IF seps = {} THEN p
      ELSE SubSeq(p, (CHOOSE k \in seps : \A j \in seps : j <= k) + 1, Len(p))

IntendedFinal ==
  (IF DirGiven
     THEN outdir[1] \o (IF outdir[1][Len(outdir[1])] = "/" THEN <<>> ELSE <<"/">>)
                    \o BaseName(infile)
     ELSE infile)
  \o PlanTable[FormatToken].ext

IntendedTemp == IntendedFinal \o <<".", "t", "m", "p">>

Fits == Len(IntendedFinal) <= MAXOUTPATH /\ Len(IntendedTemp) <= MAXTMPPATH

out_photo_dng ==
  <<"/", "o", "u", "t", "/", "p", "h", "o", "t", "o", ".", "x", "3", "f",
    ".", "d", "n", "g">>

\* C8: when the paths fit the bounds, make_paths returns 0, outfile is the
\* output directory, one separator unless the directory ends in one, and the
\* base name of the input (or the input path when no directory is given),
\* followed by the extension, and tmpfile is outfile followed by ".tmp"; the
\* directories "/out/" and "/out" with the input "/in/photo.x3f" both give
\* "/out/photo.x3f.dng".
C8_PathsBuilt ==
  mp.called =>
    /\ Fits =>
         /\ mp.err = 0
         /\ outfile = IntendedFinal
         /\ tmpfile = IntendedFinal \o <<".", "t", "m", "p">>
    /\ (infile = in_photo /\ outdir \in {<<out_dir>>, <<out_dir_sep>>}
        /\ file_type = DNG) =>
         outfile = out_photo_dng

\* C8, witness: "/out/" and "/in/photo.x3f" gave "/out/photo.x3f.dng"
C8_Witness ==
  /\ mp.called
  /\ mp.err = 0
  /\ infile = in_photo
  /\ outdir = <<out_dir_sep>>
  /\ outfile = out_photo_dng
  /\ tmpfile = out_photo_dng \o <<".", "t", "m", "p">>

\* -------------------------------------------------------------------------
\* C9: make_paths returns non-zero whenever the intended final path is longer
\* than MAXOUTPATH or the intended temporary path longer than MAXTMPPATH; no
\* copy or concatenation writes past the MAXOUTPATH+1 bytes of outfile or the
\* MAXTMPPATH+1 bytes of tmpfile, also after an earlier step of the call
\* failed; and after a non-zero result one error is counted for the file and
\* neither unlink, an encoder nor rename is called.
C9_PathsBounded ==
  mp.called =>
    /\ ~Fits => mp.err # 0
    /\ mp.outwrote <= MAXOUTPATH + 1
    /\ mp.tmpwrote <= MAXTMPPATH + 1
    /\ mp.err # 0 =>
         /\ CallsOf({"unlink", "rename"} \cup Encoders) = {}
         /\ pc \in {"found_error", "clean_up", "report", "done"}
         /\ pc \in {"clean_up", "report", "done"} => errors = 1

\* C9, witness: the copy into tmpfile failed, and the concatenation that
\* followed filled tmpfile to its last byte
C9_Witness ==
  /\ mp.called
  /\ mp.err # 0
  /\ mp.tmpwrote = MAXTMPPATH + 1
  /\ pc = "done"
  /\ errors = 1

\* -------------------------------------------------------------------------
\* C10 (the claim): with an unrecognized format or color token no input file
\* is opened, no section is loaded, no output path is looked at or built, the
\* default format or color encoding is not used in its place, and the run
\* ends with exit status 1.
C10_Claim ==
  UnknownToken =>
    /\ trace = <<>>
    /\ ~mp.called
    /\ files = 0
    /\ pc \notin {"flags", "output", "input", "meta", "open"}
    /\ Terminated => status = "exit1"

\* -------------------------------------------------------------------------
\* the calls that take an output path
PathCalls == CallsOf({"unlink", "rename"} \cup Encoders)

\* C11: the input is opened once, for reading ("rb"); every unlink and every
\* encoder call is on tmpfile and the one rename is from tmpfile to outfile,
\* which are the intended temporary and final paths; tmpfile, outfile and the
\* input path are three different paths; nothing but a successful rename
\* changes the file at the final path; and a run that ends with exit status 0
\* has renamed once, leaving this run's artifact at the final path.
C11_InputUntouched ==
  /\ Cardinality(CallsOf({"fopen"})) <= 1
  /\ \A i \in CallsOf({"fopen"}) : trace[i].what = "rb" /\ trace[i].path = infile
  /\ \A i \in PathCalls :
       /\ trace[i].path = tmpfile
       /\ trace[i].op = "rename" => trace[i].par.to = outfile
       /\ outfile = IntendedFinal
       /\ tmpfile = IntendedTemp
       /\ tmpfile # infile
       /\ outfile # infile
       /\ tmpfile # outfile
  /\ Cardinality(CallsOf({"rename"})) <= 1
  /\ fs.final # fs.final0 => RenameOK
  /\ (Terminated /\ status = "exit0") =>
       /\ Cardinality(Succeeded({"rename"})) = 1
       /\ fs.final = "complete"

\* C11, witness: "/in/photo.x3f" went to "/out/photo.x3f.tif" through
\* "/out/photo.x3f.tif.tmp", which was unlinked, written and renamed
C11_Witness ==
  /\ pc = "done"
  /\ status = "exit0"
  /\ infile = in_photo
  /\ outdir = <<out_dir>>
  /\ file_type = TIFF
  /\ outfile = out_dir \o <<"/">> \o photo \o <<".", "t", "i", "f">>
  /\ \E i \in CallsOf({"unlink"}) : trace[i].path = tmpfile
  /\ \E i \in Succeeded(Encoders) : trace[i].path = tmpfile
  /\ \E i \in Succeeded({"rename"}) : trace[i].par.to = outfile
  /\ fs.final = "complete"

\* -------------------------------------------------------------------------
\* the encoders that take the spatial-gain value
GainEncoders ==
  {"x3f_dump_raw_data_as_tiff", "x3f_dump_raw_data_as_dng",
   "x3f_dump_raw_data_as_ppm", "x3f_dump_raw_data_as_histogram"}

\* the user's override: 1 for sgain, 0 for noSGain, -1 for neither; sgain
\* wins when both are given
ForcedSGain == IF argv.sgain THEN 1 ELSE IF argv.noSGain THEN 0 ELSE -1

\* the value the encoder is to get for the container at hand
IntendedSGain ==
  IF ForcedSGain # -1 THEN ForcedSGain
  ELSE IF x3f.version < X3F_VERSION_4_0 THEN 1 ELSE 0

\* the switches have been looked at
FlagsSet ==
  \/ pc \in {"output", "input", "meta"}
  \/ ScopeEntered
  \/ pc = "done" /\ count("input") = 0 /\ ~UnknownToken

\* C12: the spatial-gain value an encoder gets is the user's forced value
\* whatever the version, and without an override 1 for a version below 4.0
\* and 0 for a version at or above it; apply_sgain keeps the override (-1
\* for none) through the whole run, and sgain is assigned only on the way
\* into the dispatch, after the open, every load and make_paths succeeded.
C12_SpatialGain ==
  /\ FlagsSet => apply_sgain = ForcedSGain
  /\ \A i \in CallsOf(GainEncoders) : trace[i].par.sgain = IntendedSGain
  /\ (CallsOf(Encoders) = {} /\ pc # "dispatch") => sgain = 0
  /\ pc = "dispatch" =>
       /\ sgain = IntendedSGain
       /\ FailedCalls(StageOps) = {}
       /\ mp.called
       /\ mp.err = 0
       /\ CallsOf({"unlink"}) # {}

\* C12, witness: no override and a container of version 4.1: the default was
\* still pending (-1) after the loads, and the TIFF encoder got 0
C12_Witness ==
  /\ ForcedSGain = -1
  /\ apply_sgain = -1
  /\ x3f.version = X3F_VERSION(4, 1)
  /\ Succeeded(Loads) # {}
  /\ \E i \in CallsOf({"x3f_dump_raw_data_as_tiff"}) : trace[i].par.sgain = 0

\* -------------------------------------------------------------------------
\* the messages x3f_printf was called with
Printed(msg) == {i \in CallsOf({"x3f_printf"}) : trace[i].what = msg}

\* C13 (the claim): a run without an input file, once it has ended, has gone
\* through the files == 0 report: it has printed "No files given" and the
\* report of the files processed with 0 errors, and its exit status is 1.
C13_Claim ==
  (Terminated /\ count("input") = 0 /\ ~UnknownToken) =>
    /\ status = "exit1"
    /\ Printed("No files given") # {}
    /\ \E i \in Printed("Files processed: %d\terrors: %d") :
         trace[i].par.files = 0 /\ trace[i].par.errors = 0

\* -------------------------------------------------------------------------
\* the place of a section load in the order preview, metadata (CAMF, then
\* PROP), raw
LoadRank(c) ==
  IF c.what = "jpeg" THEN 1
  ELSE IF c.what = "camf" THEN 2
  ELSE IF c.what = "prop" THEN 3
  ELSE 4

\* the loads and the look-up of the raw section
LoadSteps == Loads \cup {"x3f_get_raw"}

\* the calls that must not follow a failed load
AfterLoadOps == LoadSteps \cup {"x3f_get_prop", "unlink", "rename"} \cup Encoders

\* C14: the loads of a file are in the order preview, CAMF, PROP, raw, each
\* at most once and the raw section either decoded or as a block, never
\* both; a section is loaded only if the plan asks for it, and make_paths is
\* reached only with every section of the plan loaded; after a load or the
\* look-up of the raw section failed there is no further load, no unlink,
\* no encoder call and no rename, make_paths is not called, and one error is
\* counted.
C14_LoadOrder ==
  /\ \A i, j \in CallsOf(Loads) : i < j => LoadRank(trace[i]) < LoadRank(trace[j])
  /\ Cardinality(CallsOf({"x3f_get_raw"})) <= 1
  /\ \A i \in CallsOf(Loads) :
       /\ trace[i].what = "jpeg" => extract_jpg # 0
       /\ trace[i].what \in {"camf", "prop"} => extract_meta # 0
       /\ (trace[i].what = "raw" /\ trace[i].op = "x3f_load_data") => extract_raw # 0
       /\ trace[i].op = "x3f_load_image_block" => extract_unconverted_raw # 0
  /\ mp.called =>
       /\ extract_jpg # 0 => \E i \in Succeeded(Loads) : trace[i].what = "jpeg"
       /\ extract_meta # 0 => \E i \in Succeeded(Loads) : trace[i].what = "camf"
       /\ extract_raw # 0 => \E i \in Succeeded({"x3f_load_data"}) : trace[i].what = "raw"
       /\ extract_unconverted_raw # 0 => Succeeded({"x3f_load_image_block"}) # {}
  /\ \A i \in FailedCalls(LoadSteps) :
       /\ \A j \in CallsOf(AfterLoadOps) : j <= i
       /\ ~mp.called
       /\ pc \in {"found_error", "clean_up", "report", "done"}
       /\ pc \in {"clean_up", "report", "done"} => errors = 1

\* C14, witness: CAMF and PROP were loaded, the load of the raw section
\* failed, and the run ended with one error and no call on an output path
C14_Witness ==
  /\ pc = "done"
  /\ errors = 1
  /\ \E i \in Succeeded(Loads) : trace[i].what = "camf"
  /\ \E i \in Succeeded(Loads) : trace[i].what = "prop"
  /\ \E i \in FailedCalls({"x3f_load_data"}) : trace[i].what = "raw"
  /\ PathCalls = {}

\* -------------------------------------------------------------------------
\* the calls that read the container
ContainerOps == {"fopen", "x3f_new_from_file", "x3f_get_prop"} \cup LoadSteps

\* the stage a call belongs to: open, read, load, unlink, encode, commit
StageRank(op) ==
  IF op = "fopen" THEN 1
  ELSE IF op = "x3f_new_from_file" THEN 2
  ELSE IF op \in LoadSteps \cup {"x3f_get_prop"} THEN 3
  ELSE IF op = "unlink" THEN 4
  ELSE IF op \in Encoders THEN 5
  ELSE 6

\* C15 (the claim): make_paths has run before the input is opened and before
\* any section is loaded, and a path that does not fit is found before any
\* call on the container.
C15_Original ==
  /\ CallsOf(ContainerOps) # {} => mp.called
  /\ mp.err # 0 => CallsOf(ContainerOps) = {}

\* C15 (amended): the plan is resolved before the input is opened; make_paths
\* runs after the input was opened and read and every section of the plan was
\* loaded, so a path that does not fit is found after these calls, and not at
\* all when one of them fails; the calls of a file are in the order open,
\* read, loads, unlink, encoder, rename; and an encoder is called only after
\* make_paths returned 0.
C15_StageOrder ==
  /\ ScopeEntered =>
       /\ ~UnknownToken
       /\ file_type = PlanTable[FormatToken].kind
       /\ <<extract_jpg, extract_raw, extract_unconverted_raw>> = PlanTable[FormatToken].plan
  /\ CallsOf(ContainerOps) # {} /\ pc \in {"open", "read", "jpg", "meta_load", "raw", "unconverted", "paths"}
       => ~mp.called
  /\ mp.called =>
       /\ Succeeded({"fopen"}) # {}
       /\ Succeeded({"x3f_new_from_file"}) # {}
       /\ FailedCalls(ContainerOps \ {"x3f_get_prop"}) = {}
       /\ extract_jpg + extract_raw + extract_unconverted_raw > 0 => Succeeded(Loads) # {}
  /\ FailedCalls(ContainerOps \ {"x3f_get_prop"}) # {} => ~mp.called
  /\ \A i, j \in CallsOf(ContainerOps \cup {"unlink", "rename"} \cup Encoders) :
       i < j => StageRank(trace[i].op) <= StageRank(trace[j].op)
  /\ PathCalls # {} => mp.called /\ mp.err = 0
  /\ \A i \in CallsOf({"rename"}) : \E j \in Succeeded(Encoders) : j < i

\* C15, witness: the input was opened and read and its sections loaded, and
\* only then make_paths found that the path does not fit
C15_Witness ==
  /\ pc = "done"
  /\ mp.called
  /\ mp.err # 0
  /\ Succeeded({"fopen"}) # {}
  /\ Succeeded(Loads) # {}
  /\ errors = 1
  /\ PathCalls = {}

\* -------------------------------------------------------------------------
\* C16: an encoder is called at most once for a file, and before it tmpfile,
\* the path it writes, was unlinked; rename is called at most once, after the
\* encoder returned X3F_OK, and not at all after the encoder failed; after
\* the encoder or rename failed there is no unlink and the file at tmpfile is
\* left as the failed call left it: after a failed rename the complete
\* artifact is still there.
C16_CommitOrder ==
  /\ Cardinality(CallsOf(Encoders)) <= 1
  /\ \A i \in CallsOf(Encoders) :
       \E j \in CallsOf({"unlink"}) : j < i /\ trace[j].path = trace[i].path
  /\ \A j \in Succeeded({"unlink"}) :
       CallsOf(Encoders) = {} => fs.tmp = "absent"
  /\ Cardinality(CallsOf({"rename"})) <= 1
  /\ \A i \in CallsOf({"rename"}) :
       /\ \E j \in Succeeded(Encoders) : j < i /\ trace[j].path = trace[i].path
       /\ FailedCalls(Encoders) = {}
  /\ \A i \in FailedCalls(Encoders \cup {"rename"}) :
       /\ \A j \in CallsOf({"unlink"}) : j < i
       /\ pc \in {"commit", "clean_up", "report", "done"}
  /\ FailedCalls(Encoders) # {} => fs.tmp # "complete"
  /\ FailedCalls({"rename"}) # {} => fs.tmp = "complete"

\* C16, witness: the stale temporary file was unlinked, the encoder failed
\* half-way, and the run ended with the partial file at tmpfile and no rename
C16_Witness ==
  /\ pc = "done"
  /\ fs.final0 = fs.final
  /\ \E i \in Succeeded({"unlink"}) : trace[i].path = tmpfile
  /\ \E i \in FailedCalls(Encoders) : trace[i].path = tmpfile
  /\ CallsOf({"rename"}) = {}
  /\ fs.tmp = "partial"
  /\ errors = 1

\* -------------------------------------------------------------------------
\* the encoder of each output kind, and the x3f_color_encoding_t of each token
EncoderOf ==
  [t \in FormatTokens |->
     CASE t = "meta" -> "x3f_dump_meta_data"
       [] t = "jpg" -> "x3f_dump_jpeg"
       [] t = "raw" -> "x3f_dump_raw_data"
       [] t = "tiff" -> "x3f_dump_raw_data_as_tiff"
       [] t = "dng" -> "x3f_dump_raw_data_as_dng"
       [] t \in {"ppm", "ppm-ascii"} -> "x3f_dump_raw_data_as_ppm"
       [] t \in {"histogram", "loghist"} -> "x3f_dump_raw_data_as_histogram"]

EncodingOf ==
  [c \in ColorTokens |->
     CASE c = "none" -> "NONE"
       [] c = "sRGB" -> "SRGB"
       [] c = "AdobeRGB" -> "ARGB"
       [] c = "ProPhotoRGB" -> "PPRGB"
       [] c = "unprocessed" -> "UNPROCESSED"
       [] c = "qtop" -> "QTOP"]

\* the values of the request
Requested ==
  [color_encoding |-> EncodingOf[ColorToken],
   crop |-> IF argv.noCrop THEN 0 ELSE 1,
   fix_bad |-> IF argv.noFixBad THEN 0 ELSE 1,
   denoise |-> IF argv.noDenoise THEN 0 ELSE 1,
   wb |-> argv.whiteBalance,
   compress |-> IF argv.compress THEN 1 ELSE 0]

\* the arguments of the call p are the request's values for the names in keys
PassedOn(p, keys) == \A k \in keys : k \in DOMAIN p /\ p[k] = Requested[k]

\* everything up to make_paths succeeded
ReadyToEncode ==
  /\ Succeeded({"fopen"}) # {}
  /\ Succeeded({"x3f_new_from_file"}) # {}
  /\ FailedCalls(LoadSteps) = {}
  /\ mp.called
  /\ mp.err = 0

\* one encoder call when everything before it succeeded, none otherwise; the
\* encoder is that of the kind, and it writes tmpfile
EncoderCalls ==
  /\ Cardinality(CallsOf(Encoders)) <= 1
  /\ pc \in {"commit", "clean_up", "report", "done"} /\ ScopeEntered =>
       (CallsOf(Encoders) # {} <=> ReadyToEncode)
  /\ \A i \in CallsOf(Encoders) :
       /\ trace[i].op = EncoderOf[FormatToken]
       /\ trace[i].path = tmpfile
       /\ trace[i].path = IntendedTemp
       /\ trace[i].path # outfile

\* the arguments by kind; ppmKeys are the request's values PPM and histogram get
EncoderArgs(ppmKeys) ==
  \A i \in CallsOf(Encoders) :
    LET p == trace[i].par
    IN  /\ trace[i].op = "x3f_dump_raw_data_as_tiff" =>
             PassedOn(p, {"color_encoding", "crop", "fix_bad", "denoise", "wb", "compress"})
        /\ trace[i].op = "x3f_dump_raw_data_as_dng" =>
             /\ PassedOn(p, {"fix_bad", "denoise", "wb", "compress"})
             /\ DOMAIN p = {"fix_bad", "denoise", "sgain", "wb", "compress"}
        /\ trace[i].op = "x3f_dump_raw_data_as_ppm" =>
             /\ PassedOn(p, ppmKeys)
             /\ p.binary = IF FormatToken = "ppm" THEN 1 ELSE 0
        /\ trace[i].op = "x3f_dump_raw_data_as_histogram" =>
             /\ PassedOn(p, ppmKeys)
             /\ p.log_hist = IF FormatToken = "loghist" THEN 1 ELSE 0

\* C17 (the claim): one encoder call, on tmpfile and of the selected kind,
\* when the open, the loads and make_paths succeeded and none otherwise; TIFF
\* gets color encoding, crop, fix-bad, denoise, white balance and compression
\* as requested, DNG all of these but color encoding and crop, and PPM and
\* histogram the same as TIFF, compression included, and their selector.
C17_Original ==
  /\ EncoderCalls
  /\ EncoderArgs({"color_encoding", "crop", "fix_bad", "denoise", "wb", "compress"})

\* C17 (amended): as the claim, but PPM and histogram get color encoding,
\* crop, fix-bad, denoise and white balance and their selector, and no
\* compression value.
C17_Dispatch ==
  /\ EncoderCalls
  /\ EncoderArgs({"color_encoding", "crop", "fix_bad", "denoise", "wb"})
  /\ \A i \in CallsOf({"x3f_dump_raw_data_as_ppm", "x3f_dump_raw_data_as_histogram"}) :
       "compress" \notin DOMAIN trace[i].par

\* C17, witness: "-f ppm -c AdobeRGB --noFixBad --compress --whiteBalance Auto"
\* called the PPM encoder once on tmpfile, binary, with these values and
\* without the compression
C17_Witness ==
  /\ FormatToken = "ppm"
  /\ argv.compress
  /\ compress = 1
  /\ Cardinality(CallsOf(Encoders)) = 1
  /\ \E i \in CallsOf({"x3f_dump_raw_data_as_ppm"}) :
       /\ trace[i].path = tmpfile
       /\ trace[i].par.color_encoding = "ARGB"
       /\ trace[i].par.fix_bad = 0
       /\ trace[i].par.denoise = 1
       /\ trace[i].par.wb = <<"Auto">>
       /\ trace[i].par.binary = 1
       /\ "compress" \notin DOMAIN trace[i].par

\* -------------------------------------------------------------------------
\* the loads of the section named what
LoadsOf(what) == {i \in CallsOf(Loads) : trace[i].what = what}

\* x3f_get_prop found no PROP entry
PropAbsent == FailedCalls({"x3f_get_prop"}) # {}

\* C18: PROP is looked up only when the metadata is needed.  When there is no
\* PROP entry, PROP is not loaded, this is no error, and with CAMF loaded the
\* run goes on to the raw section; when there is one, it is loaded after
\* CAMF.  A failed load of CAMF, or of a PROP entry that is there, ends the
\* file: no further load, no unlink, no encoder, no rename, and one error.
C18_OptionalProp ==
  /\ CallsOf({"x3f_get_prop"}) # {} => extract_meta # 0
  /\ PropAbsent =>
       /\ LoadsOf("prop") = {}
       /\ (Succeeded(Loads) \cap LoadsOf("camf") # {}) =>
            /\ extract_raw # 0 /\ pc # "raw" => CallsOf({"x3f_get_raw"}) # {}
            /\ pc = "found_error" => FailedCalls(LoadSteps) # {} \/ mp.err # 0
            /\ (ScopeLeft /\ ~StageFailed) => errors = 0
  /\ (Succeeded({"x3f_get_prop"}) # {} /\ Succeeded(Loads) \cap LoadsOf("camf") # {}) =>
       LoadsOf("prop") # {}
  /\ \A i \in FailedCalls(Loads) \cap (LoadsOf("camf") \cup LoadsOf("prop")) :
       /\ \A j \in CallsOf(AfterLoadOps) : j <= i
       /\ pc \in {"found_error", "clean_up", "report", "done"}
       /\ ~mp.called
       /\ ScopeLeft => errors = 1

\* C18, witness: a container without PROP went through: CAMF and the raw
\* section were loaded, the artifact was committed, and no error was counted
C18_Witness ==
  /\ pc = "done"
  /\ PropAbsent
  /\ LoadsOf("prop") = {}
  /\ Succeeded(Loads) \cap LoadsOf("camf") # {}
  /\ Succeeded(Loads) \cap LoadsOf("raw") # {}
  /\ RenameOK
  /\ errors = 0
  /\ status = "exit0"

\* -------------------------------------------------------------------------
\* check_dir did not find a directory at the path of the output option
DirCheckFailed == FailedCalls({"check_dir"}) # {}

\* p is a path below the directory d
Inside(p, d) == Len(p) > Len(d) /\ SubSeq(p, 1, Len(d)) = d

\* C19: after check_dir failed the run goes on: with an input file it ends
\* only after the file was opened; when the open, the loads and make_paths
\* succeeded an encoder is called, on a tmpfile inside the directory that was
\* not found; and an error is counted only when a stage of the file's
\* processing failed, one error then and none otherwise.
C19_BadDirGoesOn ==
  DirCheckFailed =>
    /\ (pc = "done" /\ count("input") = 1) => ScopeEntered
    /\ (ReadyToEncode /\ pc \in {"commit", "clean_up", "report", "done"}) =>
         CallsOf(Encoders) # {}
    /\ \A i \in CallsOf(Encoders) :
         /\ Succeeded({"fopen"}) # {}
         /\ DirGiven => Inside(trace[i].path, outdir[1])
    /\ errors > 0 => StageFailed
    /\ ScopeLeft => errors = (IF StageFailed THEN 1 ELSE 0)
    /\ (pc = "done" /\ status = "exit1" /\ count("input") = 1) => StageFailed

\* C19, witness: "/out" was not found; the input was opened and loaded and the
\* encoder called on "/out/photo.x3f.dng.tmp"; it failed, which is the one
\* error of the run
C19_Witness ==
  /\ pc = "done"
  /\ outdir = <<out_dir>>
  /\ DirCheckFailed
  /\ Succeeded({"fopen"}) # {}
  /\ Succeeded(Loads) # {}
  /\ \E i \in FailedCalls(Encoders) :
       trace[i].path = out_photo_dng \o <<".", "t", "m", "p">>
  /\ errors = 1
  /\ status = "exit1"

====
